---- MODULE Spec2Model ----
(***************************************************************************)
(* Model of mpfs2.py, the MPFS2 image decoder (src/src/mpfs2/mpfs2.py).    *)
(*                                                                         *)
(* The image is a sequence of byte values; every pointer is a 0-based      *)
(* absolute offset into it, as in the source.  main() is cut into its      *)
(* steps: the header, the two tables, one step of find_variables' outer    *)
(* loop, the summary, one iteration of the listing/extraction loop, and    *)
(* the final variable report.  An uncaught Python exception ends the run   *)
(* in pc = "crashed" with the exception's type in error.                   *)
(*                                                                         *)
(* Abstractions: gzip.decompress is a library call, modelled as a toy      *)
(* codec (two magic bytes followed by the stored bytes); the timestamp     *)
(* text of a listing line is left out; struct.unpack("II") is taken on a   *)
(* little-endian host with 4-byte ints.                                    *)
(***************************************************************************)
EXTENDS Integers, Sequences, FiniteSets, TLC

\* ------------------------------------------------------------------ bounds
MaxRecords == 3     \* records of a free-form image
MaxGroups == 2      \* (owner, companion) groups of an index image
MaxCut == 9         \* longest truncated buffer

\* --------------------------------------------------------------- constants
MPFS2_FLAG_ISZIPPED == 1
MPFS2_FLAG_HASINDEX == 2

\* ------------------------------------------------------- Python primitives
Min(a, b) == IF a < b THEN a ELSE b

\* fs[i] for an index inside the buffer
Byte(b, i) == b[i + 1]

\* fs[lo:hi], clamped to the buffer as Python slicing does
Slice(b, lo, hi) ==
    LET h == Min(hi, Len(b))
    IN  IF lo >= h THEN << >> ELSE [k \in 1..(h - lo) |-> b[lo + k]]

\* the offsets fs[lo:hi] actually reads
SliceRange(b, lo, hi) == lo..(Min(hi, Len(b)) - 1)

\* struct.unpack("<H", s) and struct.unpack("<I", s) of a full-size buffer
U16(s) == s[1] + 256 * s[2]
U32(s) == s[1] + 256 * s[2] + 65536 * s[3] + 16777216 * s[4]

\* FileRecord._make(struct.unpack("<IIIIIH", s)) of a 22-byte buffer
FileRecord(s) ==
    [StringPtr |-> U32(SubSeq(s, 1, 4)),
     DataPtr   |-> U32(SubSeq(s, 5, 8)),
     Len       |-> U32(SubSeq(s, 9, 12)),
     Timestamp |-> U32(SubSeq(s, 13, 16)),
     Microtime |-> U32(SubSeq(s, 17, 20)),
     Flags     |-> U16(SubSeq(s, 21, 22))]

\* r.Flags & MPFS2_FLAG_HASINDEX == MPFS2_FLAG_HASINDEX
HasIndex(r) == (r.Flags \div MPFS2_FLAG_HASINDEX) % 2 = 1

\* r.Flags & MPFS2_FLAG_ISZIPPED == MPFS2_FLAG_ISZIPPED
IsZipped(r) == r.Flags % 2 = 1

\* the test main() makes before gunzipping: r.Flags == 1
ExtractZipped(r) == r.Flags = 1

\* f"{i}" of 0 <= i < 100, as character codes
Dec(i) == IF i < 10 THEN <<48 + i>> ELSE <<48 + (i \div 10), 48 + (i % 10)>>

NoName == <<60, 110, 111, 32, 110, 97, 109, 101, 62>>      \* "<no name>"
NoVar == <<60, 110, 111, 32, 118, 97, 114, 62>>            \* "<no var>"
IndexSuffix == <<45, 105, 110, 100, 101, 120>>             \* "-index"
Tilde == 126

\* the loop of get_string: characters up to the first 0 or the end
RECURSIVE ScanString(_, _)
ScanString(b, p) ==
    IF p >= Len(b) \/ Byte(b, p) = 0 THEN << >>
    ELSE (IF Byte(b, p) < 32 THEN <<60>> \o Dec(Byte(b, p)) \o <<62>>
                             ELSE <<Byte(b, p)>>) \o ScanString(b, p + 1)

\* get_string(fs, ptr) with hex_name=False, for ptr inside the buffer
get_string(b, ptr) == IF Byte(b, ptr) = 0 THEN NoName ELSE ScanString(b, ptr)

\* the loop of get_var: characters up to the next "~" or the end
RECURSIVE ScanVar(_, _)
ScanVar(b, p) ==
    IF p >= Len(b) \/ Byte(b, p) = Tilde THEN << >>
    ELSE <<Byte(b, p)>> \o ScanVar(b, p + 1)

\* get_var(fs, ptr), for ptr inside the buffer
get_var(b, ptr) == IF Byte(b, ptr) # Tilde THEN NoVar ELSE ScanVar(b, ptr + 1)

\* gzip.decompress: an empty buffer gives an empty result, a stream is the
\* magic 1f 8b followed by the stored bytes, anything else raises
GzipMagic == <<31, 139>>
GzipValid(b) == b = << >> \/ (Len(b) >= 2 /\ SubSeq(b, 1, 2) = GzipMagic)
gzip_decompress(b) == IF b = << >> THEN << >> ELSE SubSeq(b, 3, Len(b))

\* Optional[str] of next_is_indexfile
None == [some |-> FALSE, str |-> << >>]
Some(s) == [some |-> TRUE, str |-> s]
\* Python truth value of next_is_indexfile
Truthy(x) == x.some /\ x.str # << >>

EmptyDict == [k \in {} |-> << >>]
DictPut(d, k, v) == [x \in (DOMAIN d) \cup {k} |-> IF x = k THEN v ELSE d[x]]


\* first offset q >= p holding byte c, or the buffer's length
RECURSIVE FindByte(_, _, _)
FindByte(b, p, c) ==
    IF p >= Len(b) \/ Byte(b, p) = c THEN p ELSE FindByte(b, p + 1, c)

\* the offsets get_string and get_var examine
StringReads(b, ptr) ==
    IF Byte(b, ptr) = 0 THEN {ptr}
    ELSE ptr..Min(FindByte(b, ptr, 0), Len(b) - 1)
VarReads(b, ptr) ==
    IF Byte(b, ptr) # Tilde THEN {ptr}
    ELSE ptr..Min(FindByte(b, ptr + 1, Tilde), Len(b) - 1)

\* ------------------------------------------------------------ input images
\* The images the runs decode are laid out as the format prescribes: header,
\* name hashes, records, then one shared pool of strings and payloads.
LE16(x) == <<x % 256, (x \div 256) % 256>>
LE32(x) == <<x % 256, (x \div 256) % 256, (x \div 65536) % 256,
             (x \div 16777216) % 256>>
Signature == <<77, 80, 70, 83>>                           \* b"MPFS"

\* pool offsets, relative to the end of the record table
PoolAt == [NameA |-> 0,      \* "a"
           Empty |-> 1,      \* ""
           NameCtl |-> 2,    \* "<1>b"
           Gzip |-> 5,       \* 1f 8b "hi"
           File |-> 9,       \* ~x~~y~
           Index |-> 15]     \* three {offset, varId} pairs
PoolNameA == PoolAt.NameA
PoolEmpty == PoolAt.Empty
PoolNameCtl == PoolAt.NameCtl
PoolFile == PoolAt.File
PoolGzip == PoolAt.Gzip
PoolIndex == PoolAt.Index
Pool ==
    <<97, 0, 1, 98, 0>> \o <<31, 139, 104, 105>>
    \o <<126, 120, 126, 126, 121, 126>>
    \o LE32(0) \o LE32(7) \o LE32(3) \o LE32(7) \o LE32(3) \o LE32(8)

T(name, data, len, flags) ==
    [name |-> name, data |-> data, len |-> len, flags |-> flags]

\* records of a free-form image
Templates ==
    {T(PoolNameA, PoolFile, 6, f) : f \in {0, 2}}
    \cup {T(PoolNameCtl, PoolGzip, 4, f) : f \in {1, 3}}
    \cup {T(PoolEmpty, PoolIndex, 8, f) : f \in 0..3}
    \cup {T(PoolNameA, PoolIndex, 8, 0), T(PoolNameA, PoolFile, 100, 0),
          T(PoolNameA, PoolFile, 6, 1)}

\* owner and companions of an index image
Owner == T(PoolNameA, PoolFile, 6, 2)
Companions ==
    {T(PoolEmpty, PoolIndex, 8, 0), T(PoolEmpty, PoolIndex, 24, 0),
     T(PoolEmpty, PoolIndex + 8, 16, 0), T(PoolEmpty, PoolIndex + 16, 4, 0),
     T(PoolEmpty, PoolIndex + 16, 12, 0)}

RECURSIVE SeqsUpTo(_, _)
SeqsUpTo(S, k) ==
    IF k = 0 THEN {<< >>}
    ELSE LET shorter == SeqsUpTo(S, k - 1)
         IN  shorter \cup {Append(s, x) : s \in shorter, x \in S}

RECURSIVE Flatten(_)
Flatten(ss) == IF ss = << >> THEN << >> ELSE Head(ss) \o Flatten(Tail(ss))

TableEnd(k) == 8 + 24 * k

EncodeRecord(t, base) ==
    LE32(base + t.name) \o LE32(base + t.data) \o LE32(t.len)
    \o LE32(0) \o LE32(0) \o LE16(t.flags)

Image(ts) ==
    LET k == Len(ts)
    IN  Signature \o <<2, 1>> \o LE16(k)
        \o Flatten([j \in 1..k |-> LE16(0)])
        \o Flatten([j \in 1..k |-> EncodeRecord(ts[j], TableEnd(k))])
        \o Pool

FreeImages == {Image(ts) : ts \in SeqsUpTo(Templates, MaxRecords)}

GroupImages ==
    {Image(Flatten([j \in 1..Len(cs) |-> <<Owner, cs[j]>>])) :
        cs \in SeqsUpTo(Companions, MaxGroups)}

\* buffers that are not an image: a wrong signature, or an image cut short
SampleImage == Image(<<T(PoolNameA, PoolFile, 6, 2), T(PoolEmpty, PoolIndex, 8, 0)>>)
PlainImage == Image(<<T(PoolNameA, PoolFile, 6, 0)>>)
BrokenImages ==
    {[SampleImage EXCEPT ![j] = 88] : j \in 1..4}
    \cup {SubSeq(SampleImage, 1, k) : k \in 0..MaxCut}
    \cup {SubSeq([SampleImage EXCEPT ![j] = 88], 1, k) : j \in 1..4, k \in 0..MaxCut}
    \cup {SubSeq(SampleImage, 1, TableEnd(2) + k) : k \in 0..2}
    \cup {SubSeq(PlainImage, 1, TableEnd(1) + k) : k \in 0..2}
    \cup {SubSeq(SampleImage, 1, TableEnd(2) - 11 * k) : k \in 1..4}

Options == [verbose : BOOLEAN, extract : BOOLEAN, list_files : BOOLEAN,
            list_variables : BOOLEAN]


\* ------------------------------------------------------------------- state
VARIABLES
    fs,                 \* the bytes of mpfs2_file
    opts,               \* the command line flags
    pc,                 \* position in main()
    ret,                \* main()'s return value: "" while running
    error,              \* type of the uncaught exception, "" if none
    header,             \* ver_hi, ver_lo, n
    record,             \* the parsed record table
    n_idx,
    variables,          \* find_variables' dict: varId -> name
    it,                 \* records find_variables' iterator has handed out
    pairLog,            \* the {offset, varId} pairs unpacked, in order
    linked,             \* <<owner, companion>> positions find_variables paired
    i,                  \* position of the listing/extraction loop
    next_is_indexfile,
    names,              \* filename given to each record the loop has processed
    indexed,            \* <<owner, companion>> positions the loop named "-index"
    stdout,
    stderr,
    written,            \* the write_bytes calls of the loop, in order
    report,             \* the variable table: printed? written to the .idx file?
    touched             \* offsets of fs the decoder has looked at

vars == <<fs, opts, pc, ret, error, header, record, n_idx, variables, it,
          pairLog, linked, i, next_is_indexfile, names, indexed, stdout,
          stderr, written, report, touched>>

Out(kind, rec, name) == [kind |-> kind, rec |-> rec, name |-> name]
n == header.n
\* record[k] of the source, k counted from 0
Rec(k) == record[k + 1]

Init ==
    /\ fs \in FreeImages \cup GroupImages \cup BrokenImages
    /\ opts \in Options
    /\ pc = "header"
    /\ ret = ""
    /\ error = ""
    /\ header = [ver_hi |-> 0, ver_lo |-> 0, n |-> 0]
    /\ record = << >>
    /\ n_idx = 0
    /\ variables = EmptyDict
    /\ it = 0
    /\ pairLog = << >>
    /\ linked = {}
    /\ i = 0
    /\ next_is_indexfile = None
    /\ names = << >>
    /\ indexed = {}
    /\ stdout = << >>
    /\ stderr = << >>
    /\ written = << >>
    /\ report = [printed |-> FALSE, created |-> FALSE]
    /\ touched = {}

\* an uncaught exception leaves main()
Raise(e) == pc' = "crashed" /\ error' = e /\ ret' = "exception"

\* BadSignature as it would be if only "MPF" were compared
BadSignaturePrefix(signature) ==
    Len(signature) < 3 \/ SubSeq(signature, 1, 3) # SubSeq(Signature, 1, 3)

\* signature != b"MPFS"
BadSignature(signature) == signature # Signature

\* main(), lines 132-142: the signature and the header
ReadHeader ==
    /\ pc = "header"
    /\ LET signature == Slice(fs, 0, 4)
       IN  IF BadSignature(signature)
           THEN /\ stdout' = Append(stdout, Out("not MPFS", 0, << >>))
                /\ ret' = "2"
                /\ pc' = "done"
                /\ touched' = touched \cup SliceRange(fs, 0, 4)
                /\ UNCHANGED <<error, header>>
           ELSE IF Len(fs) < 6
           THEN /\ Raise("IndexError")
                /\ touched' = touched \cup SliceRange(fs, 0, 6)
                /\ UNCHANGED <<stdout, header>>
           ELSE IF Len(Slice(fs, 6, 8)) # 2
           THEN /\ Raise("struct.error")
                /\ touched' = touched \cup SliceRange(fs, 0, 8)
                /\ UNCHANGED <<stdout, header>>
           ELSE /\ header' = [ver_hi |-> Byte(fs, 4), ver_lo |-> Byte(fs, 5),
                              n |-> U16(Slice(fs, 6, 8))]
                /\ pc' = "tables"
                /\ touched' = touched \cup SliceRange(fs, 0, 8)
                /\ UNCHANGED <<stdout, ret, error>>
    /\ UNCHANGED <<fs, opts, record, n_idx, variables, it, pairLog, linked, i,
                   next_is_indexfile, names, indexed, stderr, written, report>>

\* the offsets of the k-th name hash and the k-th record, k counted from 0
HashAt(k) == 8 + 2 * k
RecordAt(k) == 8 + 2 * n + 22 * k

\* main(), lines 144-158: the name hashes, the records, the index count
ReadTables ==
    /\ pc = "tables"
    /\ touched' = touched \cup SliceRange(fs, 8, RecordAt(n))
    /\ IF \E k \in 0..(n - 1) : Len(Slice(fs, HashAt(k), HashAt(k) + 2)) # 2
       THEN Raise("struct.error") /\ UNCHANGED <<record, n_idx>>
       ELSE IF \E k \in 0..(n - 1) : Len(Slice(fs, RecordAt(k), RecordAt(k) + 22)) # 22
       THEN Raise("struct.error") /\ UNCHANGED <<record, n_idx>>
       ELSE /\ record' = [k \in 1..n |->
                            FileRecord(Slice(fs, RecordAt(k - 1), RecordAt(k - 1) + 22))]
            /\ n_idx' = Cardinality({k \in 1..n : HasIndex(record'[k])})
            /\ pc' = "find_variables"
            /\ UNCHANGED <<ret, error>>
    /\ UNCHANGED <<fs, opts, header, variables, it, pairLog, linked, i,
                   next_is_indexfile, names, indexed, stdout, stderr, written,
                   report>>


\* Bind as it would be if the name were stored before the comparison
BindOverwrite(d, num_var, var_name) ==
    IF num_var \notin DOMAIN d
    THEN [vars |-> DictPut(d, num_var, var_name), bad |-> FALSE]
    ELSE [vars |-> DictPut(d, num_var, var_name), bad |-> d[num_var] # var_name]

\* find_variables, lines 110-115: bind num_var, or find it bound to another name
Bind(d, num_var, var_name) ==
    IF num_var \notin DOMAIN d
    THEN [vars |-> DictPut(d, num_var, var_name), bad |-> FALSE]
    ELSE [vars |-> d, bad |-> d[num_var] # var_name]

Pair(owner, comp, at, offset, num_var, var_name, resolved) ==
    [owner |-> owner, comp |-> comp, at |-> at, offset |-> offset,
     num_var |-> num_var, var_name |-> var_name, resolved |-> resolved]

\* the last offset + 1 of range(v.DataPtr, v.DataPtr + v.Len, 8)
RangeEnd(v) == v.DataPtr + v.Len

\* find_variables, lines 106-115: the pairs of the companion at position c of
\* the owner at position o, from offset at on; st carries the dict, the log,
\* the offsets read and how the loop ended
RECURSIVE ReadPairs(_, _, _, _)
ReadPairs(o, c, at, st) ==
    IF at >= RangeEnd(Rec(c)) THEN st
    ELSE
      LET chunk == Slice(fs, at, at + 8)
          st1 == [st EXCEPT !.reads = @ \cup SliceRange(fs, at, at + 8)]
      IN  IF Len(chunk) # 8 THEN [st1 EXCEPT !.status = "struct.error"]
          ELSE
            LET offset == U32(SubSeq(chunk, 1, 4))
                num_var == U32(SubSeq(chunk, 5, 8))
                ptr == Rec(o).DataPtr + offset
            IN  IF ptr >= Len(fs)
                THEN [st1 EXCEPT !.status = "IndexError",
                                 !.log = Append(@, Pair(o, c, at, offset, num_var, << >>, FALSE))]
                ELSE
                  LET var_name == get_var(fs, ptr)
                      b == Bind(st.vars, num_var, var_name)
                      st2 == [st1 EXCEPT !.vars = b.vars,
                                         !.reads = @ \cup VarReads(fs, ptr),
                                         !.log = Append(@, Pair(o, c, at, offset, num_var, var_name, TRUE))]
                  IN  IF b.bad THEN [st2 EXCEPT !.status = "bad"]
                      ELSE ReadPairs(o, c, at + 8, st2)

\* find_variables, lines 99-118: one round of the while loop; the dict is
\* returned when an iterator runs out or a variable has two names
FindVariables ==
    /\ pc = "find_variables"
    /\ IF it >= n
       THEN /\ pc' = "summary"
            /\ UNCHANGED <<it, variables, pairLog, linked, touched, stderr, ret, error>>
       ELSE IF ~HasIndex(Rec(it))
       THEN /\ it' = it + 1
            /\ UNCHANGED <<pc, variables, pairLog, linked, touched, stderr, ret, error>>
       ELSE IF it + 1 >= n
       THEN /\ it' = it + 1
            /\ pc' = "summary"
            /\ UNCHANGED <<variables, pairLog, linked, touched, stderr, ret, error>>
       ELSE
         LET res == ReadPairs(it, it + 1, Rec(it + 1).DataPtr,
                              [vars |-> variables, log |-> pairLog,
                               reads |-> touched, status |-> "ok"])
         IN  /\ it' = it + 2
             /\ linked' = linked \cup {<<it, it + 1>>}
             /\ variables' = res.vars
             /\ pairLog' = res.log
             /\ touched' = res.reads
             /\ IF res.status = "ok"
                THEN UNCHANGED <<pc, stderr, ret, error>>
                ELSE IF res.status = "bad"
                THEN /\ stderr' = Append(stderr, Out("Bad index variable", it + 1, << >>))
                     /\ pc' = "summary"
                     /\ UNCHANGED <<ret, error>>
                ELSE Raise(res.status) /\ UNCHANGED stderr
    /\ UNCHANGED <<fs, opts, header, record, n_idx, i, next_is_indexfile,
                   names, indexed, stdout, written, report>>

\* main(), lines 163-170: the summary lines
Summary ==
    /\ pc = "summary"
    /\ stdout' = stdout \o <<Out("Version", 0, << >>),
                             Out("Number of files", n_idx, << >>),
                             Out("Number of dynamic variables",
                                 Cardinality(DOMAIN variables), << >>)>>
    /\ next_is_indexfile' = None
    /\ pc' = IF n = 0 THEN "report" ELSE "walk"
    /\ UNCHANGED <<fs, opts, ret, error, header, record, n_idx, variables, it,
                   pairLog, linked, i, names, indexed, stderr, written, report,
                   touched>>


\* BadEntry as it would be without the test of the entry after an owner
BadEntryNameOnly(r, nii) ==
    IF ~nii.some
    THEN (IF Byte(fs, r.StringPtr) = 0 THEN "should have a name" ELSE "")
    ELSE ""

\* main(), lines 174-182: which "Bad file entry" r is, "" if none; r's
\* StringPtr lies inside the buffer
BadEntry(r, nii) ==
    IF ~nii.some
    THEN (IF Byte(fs, r.StringPtr) = 0 THEN "should have a name" ELSE "")
    ELSE (IF Byte(fs, r.StringPtr) # 0 THEN "should be an index" ELSE "")

\* IsIndexEntry as it would be if index entries were not held back
IsIndexEntryNever(nii) == FALSE

\* main(), lines 203 and 213: the entry is treated as an index file
IsIndexEntry(nii) == Truthy(nii)

\* main(), lines 217-222: the bytes written for r
FileBytes(r) ==
    IF ExtractZipped(r)
    THEN gzip_decompress(Slice(fs, r.DataPtr, r.DataPtr + r.Len))
    ELSE Slice(fs, r.DataPtr, r.DataPtr + r.Len)

\* main(), lines 172-230: one iteration of the listing/extraction loop
ListExtract ==
    /\ pc = "walk"
    /\ i < n
    /\ LET r == Rec(i)
       IN  IF r.StringPtr >= Len(fs)
           THEN /\ Raise("IndexError")
                /\ UNCHANGED <<i, next_is_indexfile, names, indexed, stdout,
                               stderr, written, touched>>
           ELSE IF BadEntry(r, next_is_indexfile) # ""
           THEN /\ stderr' = Append(stderr,
                       Out(BadEntry(r, next_is_indexfile), i, << >>))
                /\ touched' = touched \cup {r.StringPtr}
                /\ pc' = "report"
                /\ UNCHANGED <<i, next_is_indexfile, names, indexed, stdout,
                               written, ret, error>>
           ELSE
             LET filename == IF ~next_is_indexfile.some
                             THEN get_string(fs, r.StringPtr)
                             ELSE next_is_indexfile.str \o IndexSuffix
                 index == IsIndexEntry(next_is_indexfile)
                 listing == IF ~opts.list_files THEN << >>
                            ELSE IF opts.verbose THEN <<Out("FileRecord", i, filename)>>
                            ELSE IF ~index THEN <<Out("line", i, filename)>>
                            ELSE << >>
                 extracting == ~index /\ opts.extract
                 payload == Slice(fs, r.DataPtr, r.DataPtr + r.Len)
                 seen == touched \cup {r.StringPtr}
                         \cup (IF ~next_is_indexfile.some
                               THEN StringReads(fs, r.StringPtr) ELSE {})
             IN  IF extracting /\ ExtractZipped(r) /\ ~GzipValid(payload)
                 THEN /\ Raise("BadGzipFile")
                      /\ stdout' = stdout \o listing
                      /\ touched' = seen \cup SliceRange(fs, r.DataPtr, r.DataPtr + r.Len)
                      /\ UNCHANGED <<i, next_is_indexfile, names, indexed, stderr,
                                      written>>
                 ELSE /\ stdout' = stdout \o listing
                            \o (IF extracting /\ opts.verbose
                                THEN <<Out("extracted", i, filename)>> ELSE << >>)
                      /\ written' = IF extracting
                                    THEN Append(written, [rec |-> i, name |-> filename,
                                                          data |-> FileBytes(r)])
                                    ELSE written
                      /\ touched' = IF extracting
                                    THEN seen \cup SliceRange(fs, r.DataPtr, r.DataPtr + r.Len)
                                    ELSE seen
                      /\ next_is_indexfile' = IF HasIndex(r) THEN Some(filename) ELSE None
                      /\ names' = Append(names, filename)
                      /\ indexed' = IF next_is_indexfile.some
                                    THEN indexed \cup {<<i - 1, i>>} ELSE indexed
                      /\ i' = i + 1
                      /\ pc' = IF i + 1 >= n THEN "report" ELSE "walk"
                      /\ UNCHANGED <<stderr, ret, error>>
    /\ UNCHANGED <<fs, opts, header, record, n_idx, variables, it, pairLog,
                   linked, report>>

\* main(), lines 232-241: the variable table, printed and saved
Report ==
    /\ pc = "report"
    /\ LET some == Cardinality(DOMAIN variables) > 0
           printed == opts.list_variables /\ some
           created == opts.extract /\ some
       IN  /\ report' = [printed |-> printed, created |-> created]
           /\ stdout' = stdout
                  \o (IF printed THEN <<Out("Dynamic variables", 0, << >>)>> ELSE << >>)
                  \o (IF created /\ opts.verbose THEN <<Out("created", 0, << >>)>> ELSE << >>)
    /\ ret' = "None"
    /\ pc' = "done"
    /\ UNCHANGED <<fs, opts, error, header, record, n_idx, variables, it,
                   pairLog, linked, i, next_is_indexfile, names, indexed,
                   stderr, written, touched>>

Next == ReadHeader \/ ReadTables \/ FindVariables \/ Summary \/ ListExtract \/ Report

Spec == Init /\ [][Next]_vars

TypeOK ==
    /\ pc \in {"header", "tables", "find_variables", "summary", "walk",
               "report", "done", "crashed"}
    /\ ret \in {"", "2", "None", "exception"}
    /\ it \in 0..n /\ i \in 0..n
    /\ Len(names) = i


\* ------------------------------------------------------------------ claims
Range(q) == {q[k] : k \in 1..Len(q)}
Parsed == Len(record)
NameEmpty(k) == Rec(k).StringPtr < Len(fs) /\ Byte(fs, Rec(k).StringPtr) = 0
AfterOwner(k) == k > 0 /\ HasIndex(Rec(k - 1))
Payload(k) == Slice(fs, Rec(k).DataPtr, Rec(k).DataPtr + Rec(k).Len)
BadFileEntries == {e \in Range(stderr) : e.kind \in {"should have a name", "should be an index"}}
BadVariableReported == \E e \in Range(stderr) : e.kind = "Bad index variable"

\* C1: an image whose last record has HASINDEX set does not decode: the run
\* never ends as a success.
C1_DanglingIndexFails ==
    (Parsed > 0 /\ HasIndex(Rec(Parsed - 1))) => ~(pc = "done" /\ ret = "None")

\* C2: every 8-byte pair find_variables unpacks lies inside
\* [companion.DataPtr, companion.DataPtr + companion.Len).
C2_PairsInsideCompanion ==
    \A e \in Range(pairLog) :
        e.at >= Rec(e.comp).DataPtr /\ e.at + 8 <= Rec(e.comp).DataPtr + Rec(e.comp).Len

\* C3: the bytes written for a record are the decompressed payload exactly
\* when flag bit 0 is set, whatever the other bits, and the payload otherwise.
C3_ZippedIffBit0 ==
    \A w \in Range(written) :
        w.data = IF IsZipped(Rec(w.rec)) THEN gzip_decompress(Payload(w.rec))
                 ELSE Payload(w.rec)

\* C5: a record whose payload range is not inside the image is never written
\* to a file.
C5_TruncatedPayloadNotWritten ==
    \A w \in Range(written) : Rec(w.rec).DataPtr + Rec(w.rec).Len <= Len(fs)

\* C6: a record with a non-empty name that follows a has-index record is
\* never read as {offset, varId} pairs.
C6_NamedCompanionNotRead ==
    \A e \in Range(pairLog) : NameEmpty(e.comp)

\* C10: when the listing/extraction loop ends without a bad-entry stop, the
\* (owner, companion) pairs find_variables formed are those the loop formed.
C10_PassesAgree ==
    (pc = "done" /\ ret = "None" /\ BadFileEntries = {}) => linked = indexed


\* the k-th unpacked pair names a variable already unpacked under another name
ConflictAt(k) ==
    /\ pairLog[k].resolved
    /\ \E j \in 1..(k - 1) : /\ pairLog[j].num_var = pairLog[k].num_var
                             /\ pairLog[j].var_name # pairLog[k].var_name
\* the name of the first of the pairs 1..k that carries varId id
FirstName(k, id) ==
    pairLog[CHOOSE j \in 1..k : /\ pairLog[j].num_var = id
                                /\ \A h \in 1..(j - 1) : pairLog[h].num_var # id].var_name
FirstNames(k) == [id \in {pairLog[j].num_var : j \in 1..k} |-> FirstName(k, id)]

\* C4: a pair whose name differs from the one recorded for its varId is the
\* last pair and its companion the last record find_variables handles; the
\* table is the one built from the pairs before it, each varId with the first
\* name resolved for it; the condition is reported.
C4_InconsistentVariableStops ==
    \A k \in 1..Len(pairLog) :
        ConflictAt(k) =>
            /\ k = Len(pairLog)
            /\ pc # "find_variables"
            /\ it = pairLog[k].comp + 1
            /\ \A l \in linked : l[2] <= pairLog[k].comp
            /\ variables = FirstNames(k - 1)
            /\ BadVariableReported

\* C4 witness: the run is over, it met a conflicting pair that had both a
\* later pair in the same companion and later records after it
C4_Witness ==
    /\ pc = "done"
    /\ Len(pairLog) >= 2
    /\ ConflictAt(Len(pairLog))
    /\ pairLog[Len(pairLog)].at + 8 < RangeEnd(Rec(pairLog[Len(pairLog)].comp))
    /\ it < n
    /\ DOMAIN variables # {}

\* C7: on a buffer that does not start with "MPFS" the run ends with the
\* bad-signature outcome, having looked at no offset beyond 3, parsed no
\* table, resolved no variable, listed nothing and written nothing.
C7_BadSignatureOnly ==
    Slice(fs, 0, 4) # Signature =>
        /\ pc \in {"header", "done"}
        /\ pc = "done" => (ret = "2" /\ stdout = <<Out("not MPFS", 0, << >>)>>)
        /\ pc = "header" => stdout = << >>
        /\ error = ""
        /\ touched \subseteq 0..3
        /\ header.n = 0 /\ record = << >>
        /\ variables = EmptyDict /\ pairLog = << >> /\ linked = {}
        /\ names = << >> /\ indexed = {} /\ written = << >> /\ stderr = << >>
        /\ report = [printed |-> FALSE, created |-> FALSE]

\* C7 witness: a rejected buffer that had bytes beyond the signature
C7_Witness ==
    /\ pc = "done" /\ ret = "2"
    /\ Len(fs) > 8
    /\ SubSeq(fs, 1, 3) = SubSeq(Signature, 1, 3)
    /\ opts.extract /\ opts.list_files

ShortListed(k) == \E e \in Range(stdout) : e.kind = "line" /\ e.rec = k
VerboseListed(k) == \E e \in Range(stdout) : e.kind = "FileRecord" /\ e.rec = k
Written(k) == \E w \in Range(written) : w.rec = k

\* C8: a record the loop has processed is in the non-verbose listing and in
\* the extraction directory exactly when the record before it has no HASINDEX;
\* an index companion is never written, and shows only in the verbose listing,
\* named after its owner with "-index" appended.
C8_CompanionsHeldBack ==
    \A k \in 0..(i - 1) :
        /\ (opts.list_files /\ ~opts.verbose) => (ShortListed(k) <=> ~AfterOwner(k))
        /\ opts.extract => (Written(k) <=> ~AfterOwner(k))
        /\ ShortListed(k) => (opts.list_files /\ ~opts.verbose)
        /\ Written(k) => opts.extract
        /\ VerboseListed(k) <=> (opts.list_files /\ opts.verbose)
        /\ AfterOwner(k) =>
              /\ ~Written(k) /\ ~ShortListed(k)
              /\ names[k + 1] = names[k] \o IndexSuffix
              /\ \A e \in Range(stdout) : e.rec = k /\ e.kind = "FileRecord"
                                              => e.name = names[k] \o IndexSuffix
        /\ \A w \in Range(written) : w.rec = k => w.name = names[k + 1]

\* C8 witness: a listing and extraction run that finished after processing an
\* owner, its companion and a plain file
C8_Witness ==
    /\ pc = "done" /\ i = 3
    /\ opts.list_files /\ ~opts.verbose /\ opts.extract
    /\ AfterOwner(1) /\ ~AfterOwner(2)
    /\ ShortListed(0) /\ ShortListed(2) /\ Written(0) /\ Written(2)

\* a record whose name is empty exactly when its predecessor has HASINDEX
WellPlaced(k) ==
    /\ Rec(k).StringPtr < Len(fs)
    /\ (Byte(fs, Rec(k).StringPtr) = 0) <=> AfterOwner(k)
RECURSIVE GoodPrefix(_)
GoodPrefix(k) == IF k < Parsed /\ WellPlaced(k) THEN GoodPrefix(k + 1) ELSE k

\* C9: the loop processes exactly the longest prefix of well-placed records:
\* it never goes past it, and when it ends it has processed all of it, has
\* reported the first misplaced record if there is one, and has listed and
\* extracted nothing from that record on.
C9_LongestGoodPrefix ==
    /\ i <= GoodPrefix(0)
    /\ \A e \in Range(stdout) : e.kind \in {"line", "FileRecord", "extracted"} => e.rec < GoodPrefix(0)
    /\ \A w \in Range(written) : w.rec < GoodPrefix(0)
    /\ pc \in {"report", "done"} =>
          /\ i = GoodPrefix(0)
          /\ Len(names) = i
          /\ \A k \in 0..(i - 1) :
                /\ (opts.list_files /\ opts.verbose) => VerboseListed(k)
                /\ (opts.list_files /\ ~opts.verbose /\ ~AfterOwner(k)) => ShortListed(k)
                /\ (opts.extract /\ ~AfterOwner(k)) => Written(k)
          /\ (i < n) <=> (BadFileEntries # {})
          /\ \A e \in BadFileEntries : e.rec = i

\* C9 witness: the loop stopped at a named record placed after an owner,
\* with a processed record before it and records after it
C9_Witness ==
    /\ pc = "done"
    /\ i = 1 /\ n = 3
    /\ \E e \in BadFileEntries : e.kind = "should be an index"
    /\ opts.list_files /\ opts.extract
    /\ Written(0) /\ ~Written(1) /\ ~Written(2)

====
